---- MODULE Spec2Model ----
(***************************************************************************)
(* Model of AddonManager (src/Pearl/Pearl.addons.py): the three registry   *)
(* dictionaries, the interpreter's module cache and search path that       *)
(* load_addon goes through, and the lifecycle operations load_addon,       *)
(* activate_addon, deactivate_addon and reload_addon.                      *)
(*                                                                         *)
(* Spec is the manager with one caller and its lifecycle operations.       *)
(* SpecQueries adds the queries and the order in which the dictionaries    *)
(* list their keys; SpecConcurrent runs two calls statement by statement.  *)
(*                                                                         *)
(* A Python dict is a function whose DOMAIN is its key set.  An operation  *)
(* is an operator from a manager state `st` (a record of the dictionaries) *)
(* and the outcomes of the addon's own code to the state after the call,   *)
(* so that reload_addon composes the others exactly as the code does.      *)
(***************************************************************************)
EXTENDS Integers, Sequences, FiniteSets, TLC

VARIABLES loaded_addons, active_addons, addon_metadata, sys_modules,
          sys_path, nextUid, last,
          keys,    \* insertion order of the keys of loaded_addons and
                   \* active_addons, followed in SpecQueries only
          hist,    \* history followed in SpecQueries only
          threads, \* the calls in progress, in SpecConcurrent only
          forked   \* the manager when the calls in progress began

vars == <<loaded_addons, active_addons, addon_metadata, sys_modules,
          sys_path, nextUid, last, keys, hist, threads, forked>>

----------------------------------------------------------------------------
(* Bounds *)

\* number of addon-directory entries load_addon may leave on sys.path
MaxPathLeak == 1

\* addon identifiers
Addons == {"A", "B"}

----------------------------------------------------------------------------
(* Dictionaries *)

EmptyDict == [k \in {} |-> TRUE]

\* del d[k]
DictDel(d, k) == [x \in (DOMAIN d) \ {k} |-> d[x]]

\* d[k] = v
DictSet(d, k, v) == [x \in (DOMAIN d) \cup {k} |-> IF x = k THEN v ELSE d[x]]

\* d.update(e)
DictUpdate(d, e) ==
    [x \in (DOMAIN d) \cup (DOMAIN e) |-> IF x \in DOMAIN e THEN e[x] ELSE d[x]]

\* getattr(obj, name, default) / d.get(name, default)
GetOr(d, name, default) == IF name \in DOMAIN d THEN d[name] ELSE default

----------------------------------------------------------------------------
(* Addon units: what an addon file defines when it is imported *)

\* hasattr(m, name) and callable(getattr(m, name))
IsCallable(members, name) ==
    /\ name \in DOMAIN members
    /\ members[name] \in {"function", "class"}

\* the members an addon file may define: a complete addon, one without
\* initialize, one whose shutdown is not callable
MemberChoices ==
    { [initialize |-> "function", shutdown |-> "function", fn |-> "function",
       data |-> "data"],
      [shutdown |-> "function"],
      [initialize |-> "function", shutdown |-> "data"] }

\* the metadata attributes an addon file may set; a module always has __doc__
AttrChoices ==
    { [doc |-> "None"],
      [doc |-> "None", dependencies |-> <<"B">>],
      [doc |-> "Doc", version |-> "1.0", author |-> "Me",
       dependencies |-> <<"A">>] }

\* what executing an addon file produces: a failure, or a module body
ImportChoices ==
    { [ok |-> FALSE] }
    \cup { [ok |-> TRUE, members |-> m, attrs |-> [doc |-> "None"]] :
              m \in MemberChoices }
    \cup { [ok |-> TRUE,
            members |-> [initialize |-> "function", shutdown |-> "function",
                         fn |-> "function", data |-> "data"],
            attrs |-> a] : a \in AttrChoices }

\* the <name>_metadata.json file: absent; "invalid", text that is not JSON
\* (json.JSONDecodeError); "raises", a file json.load cannot decode as text
\* (UnicodeDecodeError) or JSON that is not an object, which update()
\* rejects; or a JSON object
ExtChoices ==
    { [kind |-> "absent"], [kind |-> "invalid"], [kind |-> "raises"],
      [kind |-> "object", fields |-> [version |-> "2.0"]],
      [kind |-> "object",
       fields |-> [version |-> "2.0", dependencies |-> <<"A", "B">>]] }

\* the outcomes a call can depend on: an addon file is executed only when
\* the module is not cached, the metadata file is read only when a load
\* gets that far, shutdown() and initialize() run only from the states
\* their callers require
ImportInputs(id) ==
    IF id \in DOMAIN sys_modules THEN {[ok |-> FALSE]} ELSE ImportChoices

ExtInputs(id) ==
    IF id \in DOMAIN loaded_addons THEN {[kind |-> "absent"]} ELSE ExtChoices

ShutdownInputs(id) ==
    IF id \in DOMAIN active_addons THEN BOOLEAN ELSE {TRUE}

InitInputs(id) ==
    IF id \in DOMAIN loaded_addons THEN BOOLEAN ELSE {TRUE}

ReloadExtInputs(id) ==
    IF id \in DOMAIN loaded_addons THEN ExtChoices ELSE {[kind |-> "absent"]}

ReloadInitInputs(id) ==
    IF id \in DOMAIN active_addons THEN BOOLEAN ELSE {TRUE}

----------------------------------------------------------------------------
(* Manager state as a value *)

State(l, a, m, mods, path, uid, ev) ==
    [loaded |-> l, active |-> a, meta |-> m, mods |-> mods, path |-> path,
     uid |-> uid, events |-> ev]

\* the three dictionaries __init__ creates
Registry(st) == [loaded |-> st.loaded, active |-> st.active, meta |-> st.meta]

Cur == State(loaded_addons, active_addons, addon_metadata, sys_modules,
             sys_path, nextUid, << >>)

\* importlib.import_module(name): the cached module when there is one,
\* otherwise the file is executed; a failed execution caches nothing
import_module(st, name, imp) ==
    IF name \in DOMAIN st.mods
    THEN [ok |-> TRUE, unit |-> st.mods[name], st |-> st]
    ELSE IF imp.ok
         THEN LET u == [uid |-> st.uid, members |-> imp.members,
                        attrs |-> imp.attrs]
              IN [ok |-> TRUE, unit |-> u,
                  st |-> [st EXCEPT !.mods = DictSet(st.mods, name, u),
                                    !.uid = st.uid + 1,
                                    !.events = Append(st.events,
                                                      <<"exec", st.uid,
                                                        TRUE>>)]]
         ELSE [ok |-> FALSE,
               st |-> [st EXCEPT !.events = Append(st.events,
                                                   <<"exec", st.uid,
                                                     FALSE>>)]]

\* variant of _load_addon_metadata in which a value the unit declares wins
\* over the metadata file
_load_addon_metadata_unit_wins(addon_name, addon_module, ext) ==
    LET metadata ==
          [name |-> addon_name,
           version |-> GetOr(addon_module.attrs, "version", "Unknown"),
           author |-> GetOr(addon_module.attrs, "author", "Unknown"),
           description |-> GetOr(addon_module.attrs, "doc",
                                 "No description provided."),
           dependencies |-> GetOr(addon_module.attrs, "dependencies", << >>)]
    IN CASE ext.kind = "absent"  -> [ok |-> TRUE, metadata |-> metadata]
         [] ext.kind = "invalid" -> [ok |-> TRUE, metadata |-> metadata]
         [] ext.kind = "raises"  -> [ok |-> FALSE]
         [] ext.kind = "object"  ->
              [ok |-> TRUE, metadata |-> DictUpdate(ext.fields, metadata)]

\* _load_addon_metadata
\* ok = FALSE when the metadata file makes it raise
_load_addon_metadata(addon_name, addon_module, ext) ==
    LET metadata ==
          [name |-> addon_name,
           version |-> GetOr(addon_module.attrs, "version", "Unknown"),
           author |-> GetOr(addon_module.attrs, "author", "Unknown"),
           description |-> GetOr(addon_module.attrs, "doc",
                                 "No description provided."),
           dependencies |-> GetOr(addon_module.attrs, "dependencies", << >>)]
    IN CASE ext.kind = "absent"  -> [ok |-> TRUE, metadata |-> metadata]
         [] ext.kind = "invalid" -> [ok |-> TRUE, metadata |-> metadata]
         [] ext.kind = "raises"  -> [ok |-> FALSE]
         [] ext.kind = "object"  ->
              [ok |-> TRUE, metadata |-> DictUpdate(metadata, ext.fields)]

\* variant of load_addon that registers the unit before it validates its
\* initialize and shutdown
load_addon_validate_late(st, addon_name, imp, ext) ==
    IF addon_name \in DOMAIN st.loaded
    THEN [ret |-> FALSE, st |-> st]
    ELSE
      LET im == import_module(st, addon_name, imp)
          s1 == IF im.ok THEN im.st
                ELSE [im.st EXCEPT !.path = im.st.path + 1]
      IN IF ~im.ok THEN [ret |-> FALSE, st |-> s1]
         ELSE
           LET md == _load_addon_metadata(addon_name, im.unit, ext)
               s2 == [s1 EXCEPT !.events = Append(s1.events,
                                     <<"resolve", im.unit.uid, md.ok>>)]
           IN IF ~md.ok THEN [ret |-> FALSE, st |-> s2]
              ELSE
                LET s3 == [s2 EXCEPT
                             !.meta = DictSet(s2.meta, addon_name,
                                              md.metadata),
                             !.loaded = DictSet(s2.loaded, addon_name,
                                                im.unit)]
                IN IF ~IsCallable(im.unit.members, "initialize")
                      \/ ~IsCallable(im.unit.members, "shutdown")
                   THEN [ret |-> FALSE, st |-> s3]
                   ELSE [ret |-> TRUE, st |-> s3]

\* variant of load_addon that stores the unit in loaded_addons before it
\* resolves the metadata
load_addon_store_first(st, addon_name, imp, ext) ==
    IF addon_name \in DOMAIN st.loaded
    THEN [ret |-> FALSE, st |-> st]
    ELSE
      LET im == import_module(st, addon_name, imp)
          s1 == IF im.ok THEN im.st
                ELSE [im.st EXCEPT !.path = im.st.path + 1]
      IN IF ~im.ok THEN [ret |-> FALSE, st |-> s1]
         ELSE IF ~IsCallable(im.unit.members, "initialize")
                 \/ ~IsCallable(im.unit.members, "shutdown")
         THEN [ret |-> FALSE, st |-> s1]
         ELSE LET md == _load_addon_metadata(addon_name, im.unit, ext)
                  s2 == [s1 EXCEPT
                           !.loaded = DictSet(s1.loaded, addon_name, im.unit),
                           !.events = Append(s1.events,
                                       <<"resolve", im.unit.uid, md.ok>>)]
              IN IF ~md.ok THEN [ret |-> FALSE, st |-> s2]
                 ELSE [ret |-> TRUE,
                       st |-> [s2 EXCEPT
                                 !.meta = DictSet(s2.meta, addon_name,
                                                  md.metadata)]]

\* load_addon
load_addon(st, addon_name, imp, ext) ==
    IF addon_name \in DOMAIN st.loaded
    THEN [ret |-> FALSE, st |-> st]
    ELSE
      LET im == import_module(st, addon_name, imp)
          \* sys.path.insert(0, dir) ... sys.path.pop(0): the pop is skipped
          \* when import_module raises
          s1 == IF im.ok THEN im.st
                ELSE [im.st EXCEPT !.path = im.st.path + 1]
      IN IF ~im.ok THEN [ret |-> FALSE, st |-> s1]
         ELSE IF ~IsCallable(im.unit.members, "initialize")
                 \/ ~IsCallable(im.unit.members, "shutdown")
         THEN [ret |-> FALSE, st |-> s1]
         ELSE LET md == _load_addon_metadata(addon_name, im.unit, ext)
                  s2 == [s1 EXCEPT !.events = Append(s1.events,
                                        <<"resolve", im.unit.uid, md.ok>>)]
              IN IF ~md.ok THEN [ret |-> FALSE, st |-> s2]
                 ELSE [ret |-> TRUE,
                       st |-> [s2 EXCEPT
                                 !.meta = DictSet(s2.meta, addon_name,
                                                  md.metadata),
                                 !.loaded = DictSet(s2.loaded, addon_name,
                                                    im.unit)]]

\* _check_dependencies: the first dependency, in list order, that is not a
\* key of active_addons makes it raise ImportError naming that dependency
RECURSIVE FirstInactive(_, _)
FirstInactive(deps, active) ==
    IF deps = << >> THEN [ok |-> TRUE]
    ELSE IF Head(deps) \notin DOMAIN active
         THEN [ok |-> FALSE, why |-> "MissingDependency", dep |-> Head(deps)]
         ELSE FirstInactive(Tail(deps), active)

\* variant of _check_dependencies that accepts a dependency that is only loaded
_check_dependencies_loaded(st, addon_name) ==
    IF addon_name \notin DOMAIN st.meta
    THEN [ok |-> FALSE, why |-> "KeyError", dep |-> addon_name]
    ELSE FirstInactive(GetOr(st.meta[addon_name], "dependencies", << >>),
                       st.loaded)

\* variant of _check_dependencies that reports the last dependency that is
\* not active instead of stopping at the first
RECURSIVE LastInactive(_, _)
LastInactive(deps, active) ==
    IF deps = << >> THEN [ok |-> TRUE]
    ELSE IF deps[Len(deps)] \notin DOMAIN active
         THEN [ok |-> FALSE, why |-> "MissingDependency",
               dep |-> deps[Len(deps)]]
         ELSE LastInactive(SubSeq(deps, 1, Len(deps) - 1), active)

_check_dependencies_last(st, addon_name) ==
    IF addon_name \notin DOMAIN st.meta
    THEN [ok |-> FALSE, why |-> "KeyError", dep |-> addon_name]
    ELSE LastInactive(GetOr(st.meta[addon_name], "dependencies", << >>),
                      st.active)

\* variant of _check_dependencies that takes a dependency of the addon on
\* itself as satisfied
_check_dependencies_skip_self(st, addon_name) ==
    IF addon_name \notin DOMAIN st.meta
    THEN [ok |-> FALSE, why |-> "KeyError", dep |-> addon_name]
    ELSE LET NotSelf(dep) == dep # addon_name
         IN FirstInactive(
              SelectSeq(GetOr(st.meta[addon_name], "dependencies", << >>),
                        NotSelf),
              st.active)

_check_dependencies(st, addon_name) ==
    IF addon_name \notin DOMAIN st.meta
    THEN [ok |-> FALSE, why |-> "KeyError", dep |-> addon_name]
    ELSE FirstInactive(GetOr(st.meta[addon_name], "dependencies", << >>),
                       st.active)

\* variant of activate_addon that calls initialize() before it checks the
\* dependencies
activate_addon_init_first(st, addon_name, initOk) ==
    IF addon_name \notin DOMAIN st.loaded
    THEN [ret |-> FALSE, why |-> "NotLoaded", st |-> st]
    ELSE IF addon_name \in DOMAIN st.active
    THEN [ret |-> FALSE, why |-> "AlreadyActive", st |-> st]
    ELSE
      LET addon_module == st.loaded[addon_name]
          s1 == [st EXCEPT !.events =
                   Append(st.events,
                          <<"initialize", addon_module.uid, initOk>>)]
          chk == _check_dependencies(st, addon_name)
      IN IF ~initOk
         THEN [ret |-> FALSE, why |-> "UnitFailure", st |-> s1]
         ELSE IF ~chk.ok
         THEN [ret |-> FALSE, why |-> chk.why, dep |-> chk.dep, st |-> s1]
         ELSE [ret |-> TRUE, why |-> "ok",
               st |-> [s1 EXCEPT !.active =
                         DictSet(s1.active, addon_name, addon_module)]]

\* variant of activate_addon that records the addon as active before it
\* calls initialize()
activate_addon_record_first(st, addon_name, initOk) ==
    IF addon_name \notin DOMAIN st.loaded
    THEN [ret |-> FALSE, why |-> "NotLoaded", st |-> st]
    ELSE IF addon_name \in DOMAIN st.active
    THEN [ret |-> FALSE, why |-> "AlreadyActive", st |-> st]
    ELSE
      LET addon_module == st.loaded[addon_name]
          chk == _check_dependencies(st, addon_name)
      IN IF ~chk.ok
         THEN [ret |-> FALSE, why |-> chk.why, dep |-> chk.dep, st |-> st]
         ELSE
           LET s1 == [st EXCEPT
                        !.active = DictSet(st.active, addon_name,
                                           addon_module),
                        !.events =
                          Append(st.events,
                                 <<"initialize", addon_module.uid, initOk>>)]
           IN IF ~initOk
              THEN [ret |-> FALSE, why |-> "UnitFailure", st |-> s1]
              ELSE [ret |-> TRUE, why |-> "ok", st |-> s1]

\* variant of activate_addon without the guard on an addon that is already
\* active
activate_addon_no_active_guard(st, addon_name, initOk) ==
    IF addon_name \notin DOMAIN st.loaded
    THEN [ret |-> FALSE, why |-> "NotLoaded", st |-> st]
    ELSE
      LET addon_module == st.loaded[addon_name]
          chk == _check_dependencies(st, addon_name)
      IN IF ~chk.ok
         THEN [ret |-> FALSE, why |-> chk.why, dep |-> chk.dep, st |-> st]
         ELSE
           LET s1 == [st EXCEPT !.events =
                        Append(st.events,
                               <<"initialize", addon_module.uid, initOk>>)]
           IN IF ~initOk
              THEN [ret |-> FALSE, why |-> "UnitFailure", st |-> s1]
              ELSE [ret |-> TRUE, why |-> "ok",
                    st |-> [s1 EXCEPT !.active =
                              DictSet(s1.active, addon_name, addon_module)]]

\* activate_addon; initOk is whether the unit's initialize() returns normally
activate_addon(st, addon_name, initOk) ==
    IF addon_name \notin DOMAIN st.loaded
    THEN [ret |-> FALSE, why |-> "NotLoaded", st |-> st]
    ELSE IF addon_name \in DOMAIN st.active
    THEN [ret |-> FALSE, why |-> "AlreadyActive", st |-> st]
    ELSE
      LET addon_module == st.loaded[addon_name]
          chk == _check_dependencies(st, addon_name)
      IN IF ~chk.ok
         THEN [ret |-> FALSE, why |-> chk.why, dep |-> chk.dep, st |-> st]
         ELSE
           LET s1 == [st EXCEPT !.events =
                        Append(st.events,
                               <<"initialize", addon_module.uid, initOk>>)]
           IN IF ~initOk
              THEN [ret |-> FALSE, why |-> "UnitFailure", st |-> s1]
              ELSE [ret |-> TRUE, why |-> "ok",
                    st |-> [s1 EXCEPT !.active =
                              DictSet(s1.active, addon_name, addon_module)]]

\* variant of deactivate_addon that removes the addon from active_addons
\* before it calls shutdown()
deactivate_addon_remove_first(st, addon_name, shutOk) ==
    IF addon_name \notin DOMAIN st.active
    THEN [ret |-> FALSE, why |-> "NotActive", st |-> st]
    ELSE
      LET addon_module == st.active[addon_name]
          s1 == [st EXCEPT !.active = DictDel(st.active, addon_name),
                           !.events =
                             Append(st.events,
                                    <<"shutdown", addon_module.uid, shutOk>>)]
      IN IF ~shutOk
         THEN [ret |-> FALSE, why |-> "UnitFailure", st |-> s1]
         ELSE [ret |-> TRUE, why |-> "ok", st |-> s1]

\* variant of deactivate_addon whose guard looks at loaded_addons
deactivate_addon_guard_loaded(st, addon_name, shutOk) ==
    IF addon_name \notin DOMAIN st.loaded
    THEN [ret |-> FALSE, why |-> "NotActive", st |-> st]
    ELSE
      LET addon_module == st.loaded[addon_name]
          s1 == [st EXCEPT !.events =
                   Append(st.events,
                          <<"shutdown", addon_module.uid, shutOk>>)]
      IN IF ~shutOk
         THEN [ret |-> FALSE, why |-> "UnitFailure", st |-> s1]
         ELSE [ret |-> TRUE, why |-> "ok",
               st |-> [s1 EXCEPT !.active = DictDel(s1.active, addon_name)]]

\* variant of deactivate_addon that empties active_addons
deactivate_addon_clear(st, addon_name, shutOk) ==
    IF addon_name \notin DOMAIN st.active
    THEN [ret |-> FALSE, why |-> "NotActive", st |-> st]
    ELSE
      LET addon_module == st.active[addon_name]
          s1 == [st EXCEPT !.events =
                   Append(st.events,
                          <<"shutdown", addon_module.uid, shutOk>>)]
      IN IF ~shutOk
         THEN [ret |-> FALSE, why |-> "UnitFailure", st |-> s1]
         ELSE [ret |-> TRUE, why |-> "ok",
               st |-> [s1 EXCEPT !.active = EmptyDict]]

\* variant of deactivate_addon that also deactivates the active addons
\* that declare addon_name as a dependency
deactivate_addon_cascade(st, addon_name, shutOk) ==
    IF addon_name \notin DOMAIN st.active
    THEN [ret |-> FALSE, why |-> "NotActive", st |-> st]
    ELSE
      LET addon_module == st.active[addon_name]
          s1 == [st EXCEPT !.events =
                   Append(st.events,
                          <<"shutdown", addon_module.uid, shutOk>>)]
          dependents ==
            {y \in DOMAIN s1.active \cap DOMAIN s1.meta :
               \E i \in 1..Len(GetOr(s1.meta[y], "dependencies", << >>)) :
                 GetOr(s1.meta[y], "dependencies", << >>)[i] = addon_name}
      IN IF ~shutOk
         THEN [ret |-> FALSE, why |-> "UnitFailure", st |-> s1]
         ELSE [ret |-> TRUE, why |-> "ok",
               st |-> [s1 EXCEPT !.active =
                         [y \in (DOMAIN s1.active) \ (dependents \cup {addon_name})
                            |-> s1.active[y]]]]

\* deactivate_addon; shutOk is whether the unit's shutdown() returns normally
deactivate_addon(st, addon_name, shutOk) ==
    IF addon_name \notin DOMAIN st.active
    THEN [ret |-> FALSE, why |-> "NotActive", st |-> st]
    ELSE
      LET addon_module == st.active[addon_name]
          s1 == [st EXCEPT !.events =
                   Append(st.events,
                          <<"shutdown", addon_module.uid, shutOk>>)]
      IN IF ~shutOk
         THEN [ret |-> FALSE, why |-> "UnitFailure", st |-> s1]
         ELSE [ret |-> TRUE, why |-> "ok",
               st |-> [s1 EXCEPT !.active = DictDel(s1.active, addon_name)]]

\* the steps of a reload_addon call that were run and what they returned
NoSteps == [was_active |-> FALSE, deactRan |-> FALSE, deactRet |-> FALSE,
            unloadRan |-> FALSE, loadRan |-> FALSE, loadRet |-> FALSE,
            actRan |-> FALSE, actRet |-> FALSE]

\* variant of reload_addon that reports success as soon as the load step
\* succeeded, whatever the re-activation returned
reload_addon_ignore_activate(st, addon_name, shutOk, imp, ext, initOk) ==
    IF addon_name \notin DOMAIN st.loaded
    THEN [ret |-> FALSE, raised |-> FALSE, steps |-> NoSteps, st |-> st]
    ELSE
      LET was_active == addon_name \in DOMAIN st.active
          de == IF was_active THEN deactivate_addon(st, addon_name, shutOk)
                ELSE [ret |-> FALSE, st |-> st]
          s1 == [de.st EXCEPT !.loaded = DictDel(de.st.loaded, addon_name)]
          steps1 == [NoSteps EXCEPT !.was_active = was_active,
                                    !.deactRan = was_active,
                                    !.deactRet = de.ret,
                                    !.unloadRan = TRUE]
      IN IF addon_name \notin DOMAIN s1.meta
         THEN [ret |-> FALSE, raised |-> TRUE, steps |-> steps1, st |-> s1]
         ELSE
           LET s2 == [s1 EXCEPT !.meta = DictDel(s1.meta, addon_name)]
               ld == load_addon(s2, addon_name, imp, ext)
               steps2 == [steps1 EXCEPT !.loadRan = TRUE, !.loadRet = ld.ret]
           IN IF ld.ret
              THEN IF was_active
                   THEN LET ac == activate_addon(ld.st, addon_name, initOk)
                        IN [ret |-> TRUE, raised |-> FALSE,
                            steps |-> [steps2 EXCEPT !.actRan = TRUE,
                                                     !.actRet = ac.ret],
                            st |-> ac.st]
                   ELSE [ret |-> TRUE, raised |-> FALSE, steps |-> steps2,
                         st |-> ld.st]
              ELSE [ret |-> FALSE, raised |-> FALSE, steps |-> steps2,
                    st |-> ld.st]

\* variant of reload_addon that tries to load an addon it does not find in
\* loaded_addons
reload_addon_load_unknown(st, addon_name, shutOk, imp, ext, initOk) ==
    IF addon_name \notin DOMAIN st.loaded
    THEN LET ld == load_addon(st, addon_name, imp, ext)
         IN [ret |-> FALSE, raised |-> FALSE,
             steps |-> [NoSteps EXCEPT !.loadRan = TRUE, !.loadRet = ld.ret],
             st |-> ld.st]
    ELSE
      LET was_active == addon_name \in DOMAIN st.active
          \* the result of deactivate_addon is not looked at
          de == IF was_active THEN deactivate_addon(st, addon_name, shutOk)
                ELSE [ret |-> FALSE, st |-> st]
          s1 == [de.st EXCEPT !.loaded = DictDel(de.st.loaded, addon_name)]
          steps1 == [NoSteps EXCEPT !.was_active = was_active,
                                    !.deactRan = was_active,
                                    !.deactRet = de.ret,
                                    !.unloadRan = TRUE]
      IN IF addon_name \notin DOMAIN s1.meta
         THEN \* del self.addon_metadata[addon_name] raises KeyError
              [ret |-> FALSE, raised |-> TRUE, steps |-> steps1, st |-> s1]
         ELSE
           LET s2 == [s1 EXCEPT !.meta = DictDel(s1.meta, addon_name)]
               ld == load_addon(s2, addon_name, imp, ext)
               steps2 == [steps1 EXCEPT !.loadRan = TRUE, !.loadRet = ld.ret]
           IN IF ld.ret
              THEN IF was_active
                   THEN LET ac == activate_addon(ld.st, addon_name, initOk)
                        IN [ret |-> ac.ret, raised |-> FALSE,
                            steps |-> [steps2 EXCEPT !.actRan = TRUE,
                                                     !.actRet = ac.ret],
                            st |-> ac.st]
                   ELSE [ret |-> TRUE, raised |-> FALSE, steps |-> steps2,
                         st |-> ld.st]
              ELSE [ret |-> FALSE, raised |-> FALSE, steps |-> steps2,
                    st |-> ld.st]

\* reload_addon
reload_addon(st, addon_name, shutOk, imp, ext, initOk) ==
    IF addon_name \notin DOMAIN st.loaded
    THEN [ret |-> FALSE, raised |-> FALSE, steps |-> NoSteps, st |-> st]
    ELSE
      LET was_active == addon_name \in DOMAIN st.active
          \* the result of deactivate_addon is not looked at
          de == IF was_active THEN deactivate_addon(st, addon_name, shutOk)
                ELSE [ret |-> FALSE, st |-> st]
          s1 == [de.st EXCEPT !.loaded = DictDel(de.st.loaded, addon_name)]
          steps1 == [NoSteps EXCEPT !.was_active = was_active,
                                    !.deactRan = was_active,
                                    !.deactRet = de.ret,
                                    !.unloadRan = TRUE]
      IN IF addon_name \notin DOMAIN s1.meta
         THEN \* del self.addon_metadata[addon_name] raises KeyError
              [ret |-> FALSE, raised |-> TRUE, steps |-> steps1, st |-> s1]
         ELSE
           LET s2 == [s1 EXCEPT !.meta = DictDel(s1.meta, addon_name)]
               ld == load_addon(s2, addon_name, imp, ext)
               steps2 == [steps1 EXCEPT !.loadRan = TRUE, !.loadRet = ld.ret]
           IN IF ld.ret
              THEN IF was_active
                   THEN LET ac == activate_addon(ld.st, addon_name, initOk)
                        IN [ret |-> ac.ret, raised |-> FALSE,
                            steps |-> [steps2 EXCEPT !.actRan = TRUE,
                                                     !.actRet = ac.ret],
                            st |-> ac.st]
                   ELSE [ret |-> TRUE, raised |-> FALSE, steps |-> steps2,
                         st |-> ld.st]
              ELSE [ret |-> FALSE, raised |-> FALSE, steps |-> steps2,
                    st |-> ld.st]

\* the names execute_addon_function is asked for: a function of the unit,
\* a name the unit does not have, a member that is not callable, and the
\* two functions every addon has
FunctionNames == {"fn", "missing_fn", "data", "initialize", "shutdown"}

\* the arguments a caller passes
ArgChoices == {<<"arg1">>}

\* what a called function does: return a value or raise
CallOutcomes == { [ok |-> TRUE, value |-> "result"],
                  [ok |-> FALSE, value |-> "error"] }

\* variant of execute_addon_function that looks the addon up in
\* loaded_addons
execute_addon_function_loaded(st, addon_name, function_name, args, out) ==
    IF addon_name \notin DOMAIN st.loaded
    THEN [ret |-> FALSE, raised |-> "ValueError", value |-> "NotActive",
          st |-> st]
    ELSE
      LET addon_module == st.loaded[addon_name]
      IN IF function_name \notin DOMAIN addon_module.members
         THEN [ret |-> FALSE, raised |-> "AttributeError",
               value |-> "CapabilityNotFound", st |-> st]
         ELSE IF ~IsCallable(addon_module.members, function_name)
         THEN [ret |-> FALSE, raised |-> "TypeError",
               value |-> "NotCallable", st |-> st]
         ELSE
           LET s1 == [st EXCEPT !.events =
                        Append(st.events,
                               <<"call", addon_module.uid, out.ok,
                                 function_name, args, out.value>>)]
           IN IF out.ok
              THEN [ret |-> TRUE, raised |-> "", value |-> out.value,
                    st |-> s1]
              ELSE [ret |-> FALSE, raised |-> "UnitFailure",
                    value |-> out.value, st |-> s1]

\* variant of execute_addon_function without the hasattr test: a missing
\* name yields None
execute_addon_function_no_hasattr(st, addon_name, function_name, args, out) ==
    IF addon_name \notin DOMAIN st.active
    THEN [ret |-> FALSE, raised |-> "ValueError", value |-> "NotActive",
          st |-> st]
    ELSE
      LET addon_module == st.active[addon_name]
      IN IF function_name \notin DOMAIN addon_module.members
         THEN [ret |-> TRUE, raised |-> "", value |-> "None", st |-> st]
         ELSE IF ~IsCallable(addon_module.members, function_name)
         THEN [ret |-> FALSE, raised |-> "TypeError",
               value |-> "NotCallable", st |-> st]
         ELSE
           LET s1 == [st EXCEPT !.events =
                        Append(st.events,
                               <<"call", addon_module.uid, out.ok,
                                 function_name, args, out.value>>)]
           IN IF out.ok
              THEN [ret |-> TRUE, raised |-> "", value |-> out.value,
                    st |-> s1]
              ELSE [ret |-> FALSE, raised |-> "UnitFailure",
                    value |-> out.value, st |-> s1]

\* variant of execute_addon_function that calls the function a second time
\* when it raised
execute_addon_function_retry(st, addon_name, function_name, args, out) ==
    IF addon_name \notin DOMAIN st.active
    THEN [ret |-> FALSE, raised |-> "ValueError", value |-> "NotActive",
          st |-> st]
    ELSE
      LET addon_module == st.active[addon_name]
      IN IF function_name \notin DOMAIN addon_module.members
         THEN [ret |-> FALSE, raised |-> "AttributeError",
               value |-> "CapabilityNotFound", st |-> st]
         ELSE IF ~IsCallable(addon_module.members, function_name)
         THEN [ret |-> FALSE, raised |-> "TypeError",
               value |-> "NotCallable", st |-> st]
         ELSE
           LET ev == <<"call", addon_module.uid, out.ok, function_name,
                       args, out.value>>
               s1 == [st EXCEPT !.events = Append(st.events, ev)]
               s2 == [s1 EXCEPT !.events = Append(s1.events, ev)]
           IN IF out.ok
              THEN [ret |-> TRUE, raised |-> "", value |-> out.value,
                    st |-> s1]
              ELSE [ret |-> FALSE, raised |-> "UnitFailure",
                    value |-> out.value, st |-> s2]

\* execute_addon_function; `out` is what the called function does.  The
\* result holds whether the call returned, the exception it raised
\* otherwise, and the value returned or the failure propagated
execute_addon_function(st, addon_name, function_name, args, out) ==
    IF addon_name \notin DOMAIN st.active
    THEN [ret |-> FALSE, raised |-> "ValueError", value |-> "NotActive",
          st |-> st]
    ELSE
      LET addon_module == st.active[addon_name]
      IN IF function_name \notin DOMAIN addon_module.members
         THEN [ret |-> FALSE, raised |-> "AttributeError",
               value |-> "CapabilityNotFound", st |-> st]
         ELSE IF ~IsCallable(addon_module.members, function_name)
         THEN \* function(*args, **kwargs) on a member that is not callable
              [ret |-> FALSE, raised |-> "TypeError",
               value |-> "NotCallable", st |-> st]
         ELSE
           LET s1 == [st EXCEPT !.events =
                        Append(st.events,
                               <<"call", addon_module.uid, out.ok,
                                 function_name, args, out.value>>)]
           IN IF out.ok
              THEN [ret |-> TRUE, raised |-> "", value |-> out.value,
                    st |-> s1]
              ELSE [ret |-> FALSE, raised |-> "UnitFailure",
                    value |-> out.value, st |-> s1]

----------------------------------------------------------------------------
(* Queries *)

\* no info dictionary was returned
NoInfo == EmptyDict

\* the objects that have a __name__: functions and classes
HasName(kind) == kind \in {"function", "class"}

\* inspect.getmembers(addon_module, lambda x: not x.__name__.startswith('_')):
\* the predicate is applied to the value of every name in dir(addon_module),
\* the attributes every module has (__doc__, __name__, __builtins__, ...)
\* among them, and raises AttributeError on a value that has no __name__.
\* No member name of the units starts with an underscore.
getmembers(addon_module) ==
    IF \/ DOMAIN addon_module.attrs # {}
       \/ \E n \in DOMAIN addon_module.members :
            ~HasName(addon_module.members[n])
    THEN [ok |-> FALSE]
    ELSE [ok |-> TRUE, items |-> addon_module.members]

\* variant of get_addon_info whose guard looks at the imported modules
\* instead of loaded_addons
get_addon_info_guard_imported(st, addon_name) ==
    IF addon_name \notin DOMAIN st.mods
    THEN [ret |-> FALSE, raised |-> "ValueError", value |-> "NotLoaded",
          info |-> NoInfo, st |-> st]
    ELSE
      LET addon_module == st.mods[addon_name]
          metadata == GetOr(st.meta, addon_name, EmptyDict)
          info ==
            [name |-> addon_name,
             version |-> GetOr(metadata, "version", "Unknown"),
             author |-> GetOr(metadata, "author", "Unknown"),
             description |-> GetOr(metadata, "description",
                                   "No description provided."),
             status |-> IF addon_name \in DOMAIN st.active
                        THEN "Active" ELSE "Inactive",
             dependencies |-> GetOr(metadata, "dependencies", << >>)]
          public_items == getmembers(addon_module)
      IN IF ~public_items.ok
         THEN [ret |-> FALSE, raised |-> "AttributeError",
               value |-> "NoName", info |-> NoInfo, st |-> st]
         ELSE [ret |-> TRUE, raised |-> "", value |-> "",
               info |-> DictUpdate(info,
                  [functions |-> {n \in DOMAIN public_items.items :
                                    public_items.items[n] = "function"},
                   classes |-> {n \in DOMAIN public_items.items :
                                  public_items.items[n] = "class"}]),
               st |-> st]

\* get_addon_info: the exception raised, or the info dictionary
get_addon_info(st, addon_name) ==
    IF addon_name \notin DOMAIN st.loaded
    THEN [ret |-> FALSE, raised |-> "ValueError", value |-> "NotLoaded",
          info |-> NoInfo, st |-> st]
    ELSE
      LET addon_module == st.loaded[addon_name]
          metadata == GetOr(st.meta, addon_name, EmptyDict)
          info ==
            [name |-> addon_name,
             version |-> GetOr(metadata, "version", "Unknown"),
             author |-> GetOr(metadata, "author", "Unknown"),
             description |-> GetOr(metadata, "description",
                                   "No description provided."),
             status |-> IF addon_name \in DOMAIN st.active
                        THEN "Active" ELSE "Inactive",
             dependencies |-> GetOr(metadata, "dependencies", << >>)]
          public_items == getmembers(addon_module)
      IN IF ~public_items.ok
         THEN [ret |-> FALSE, raised |-> "AttributeError",
               value |-> "NoName", info |-> NoInfo, st |-> st]
         ELSE [ret |-> TRUE, raised |-> "", value |-> "",
               info |-> DictUpdate(info,
                  [functions |-> {n \in DOMAIN public_items.items :
                                    public_items.items[n] = "function"},
                   classes |-> {n \in DOMAIN public_items.items :
                                  public_items.items[n] = "class"}]),
               st |-> st]

\* variant of get_loaded_addons that leaves out the addons that are active
get_loaded_addons_inactive(k) ==
    LET Inactive(id) == \A i \in 1..Len(k.active) : k.active[i] # id
    IN SelectSeq(k.loaded, Inactive)

\* get_loaded_addons: list(self.loaded_addons.keys()), the keys in the order
\* in which they were inserted
get_loaded_addons(k) == k.loaded

\* get_active_addons: list(self.active_addons.keys())
get_active_addons(k) == k.active

----------------------------------------------------------------------------
(* The manager as a state machine: one action per public operation *)

\* no metadata file was read by the call
NoExt == [kind |-> "unread"]

\* the metadata file the call read, if it got as far as resolving metadata
ExtRead(ev, ext) ==
    IF \E i \in 1..Len(ev) : ev[i][1] = "resolve" THEN ext ELSE NoExt

\* the record of the call that produced the current state
Call(op, id, r, why, steps) ==
    [op |-> op, id |-> id, ret |-> r.ret, why |-> why, steps |-> steps,
     events |-> r.st.events,
     raised |-> "", value |-> "", fn |-> "", args |-> << >>, ext |-> NoExt,
     list |-> << >>, info |-> NoInfo]

\* the variables take the state an operation returns
Takes(st) ==
    /\ loaded_addons' = st.loaded
    /\ active_addons' = st.active
    /\ addon_metadata' = st.meta
    /\ sys_modules' = st.mods
    /\ sys_path' = st.path
    /\ nextUid' = st.uid

\* the same, where the order of the keys and the history are not followed
\* and one caller makes one call at a time
Becomes(st) ==
    /\ Takes(st)
    /\ UNCHANGED <<keys, hist, threads, forked>>

\* the callers of SpecConcurrent
Threads == {1, 2}

\* no unit was read
NoUnit == [uid |-> -1, members |-> EmptyDict, attrs |-> EmptyDict]

\* a caller that is not in a call
IdleThread ==
    [op |-> "", id |-> "", pc |-> "idle", was_active |-> FALSE,
     addon_module |-> NoUnit, ret |-> FALSE, raised |-> "", inits |-> 0,
     info |-> NoInfo]

\* no calls are in progress
NotForked == [forked |-> FALSE]

\* nothing observed yet
NoObservation ==
    [id |-> "", info |-> [raised |-> "", info |-> NoInfo],
     loaded |-> << >>, active |-> << >>]

\* the call before the last is not remembered
NoEarlier ==
    [op |-> "", id |-> "", ret |-> FALSE, before |-> NoObservation]

\* AddonManager.__init__ on a fresh interpreter
Init ==
    /\ loaded_addons = EmptyDict
    /\ active_addons = EmptyDict
    /\ addon_metadata = EmptyDict
    /\ sys_modules = EmptyDict
    /\ sys_path = 0
    /\ nextUid = 0
    /\ last = [op |-> "init", id |-> "", ret |-> FALSE, why |-> "ok",
               steps |-> NoSteps, events |-> << >>,
               raised |-> "", value |-> "", fn |-> "", args |-> << >>,
               ext |-> NoExt, list |-> << >>, info |-> NoInfo]
    /\ keys = [loaded |-> << >>, active |-> << >>]
    /\ hist = [ever_loaded |-> {}, before |-> NoObservation,
               earlier |-> NoEarlier]
    /\ threads = [t \in Threads |-> IdleThread]
    /\ forked = NotForked

Load ==
    \E id \in Addons :
    \E imp \in ImportInputs(id), ext \in ExtInputs(id) :
      LET r == load_addon(Cur, id, imp, ext)
      IN /\ r.st.path <= MaxPathLeak
         /\ Becomes(r.st)
         /\ last' = [Call("load", id, r, "", NoSteps)
                       EXCEPT !.ext = ExtRead(r.st.events, ext)]

Activate ==
    \E id \in Addons :
    \E initOk \in InitInputs(id) :
      LET r == activate_addon(Cur, id, initOk)
      IN /\ Becomes(r.st)
         \* the ImportError names the dependency that is not active
         /\ last' = [Call("activate", id, r, r.why, NoSteps)
                       EXCEPT !.value = GetOr(r, "dep", "")]

Deactivate ==
    \E id \in Addons :
    \E shutOk \in ShutdownInputs(id) :
      LET r == deactivate_addon(Cur, id, shutOk)
      IN /\ Becomes(r.st)
         /\ last' = Call("deactivate", id, r, r.why, NoSteps)

Reload ==
    \E id \in Addons :
    \E shutOk \in ShutdownInputs(id), imp \in ImportInputs(id),
       ext \in ReloadExtInputs(id), initOk \in ReloadInitInputs(id) :
      LET r == reload_addon(Cur, id, shutOk, imp, ext, initOk)
      IN /\ r.st.path <= MaxPathLeak
         /\ Becomes(r.st)
         /\ last' = [Call("reload", id, r, "", r.steps)
                       EXCEPT !.raised = IF r.raised THEN "KeyError" ELSE "",
                              !.ext = ExtRead(r.st.events, ext)]

\* the function is looked up and called only on an active addon
FunctionInputs(id) ==
    IF id \in DOMAIN active_addons THEN FunctionNames ELSE {"fn"}

CallInputs(id, fn) ==
    IF id \in DOMAIN active_addons /\ fn = "fn" THEN CallOutcomes
    ELSE {[ok |-> TRUE, value |-> "result"]}

\* initialize and shutdown take no argument (they are called so at lines
\* 134 and 172)
ArgInputs(fn) ==
    IF fn \in {"initialize", "shutdown"} THEN {<< >>} ELSE ArgChoices

Invoke ==
    \E id \in Addons :
    \E fn \in FunctionInputs(id) :
    \E args \in ArgInputs(fn) :
    \E out \in CallInputs(id, fn) :
      LET r == execute_addon_function(Cur, id, fn, args, out)
      IN /\ Becomes(r.st)
         /\ last' = [Call("invoke", id, r, "", NoSteps)
                       EXCEPT !.fn = fn, !.args = args,
                              !.raised = r.raised, !.value = r.value]

Next == Load \/ Activate \/ Deactivate \/ Reload \/ Invoke

Spec == Init /\ [][Next]_vars

----------------------------------------------------------------------------
(* The manager with its queries.  SpecQueries follows, besides the state   *)
(* of Spec, the order of the keys of the two dictionaries (a dict lists    *)
(* its keys in insertion order), which addons were ever registered, what   *)
(* the queries answered before the last call, and, while the call before   *)
(* the last was a successful deactivate, that call with what the queries   *)
(* answered before it.  The addon files are fewer than in Spec.            *)

\* the addon files: one that fails, a complete addon, a complete addon
\* that depends on B, one without initialize
QueryImportChoices ==
    { [ok |-> FALSE],
      [ok |-> TRUE,
       members |-> [initialize |-> "function", shutdown |-> "function",
                    fn |-> "function", data |-> "data"],
       attrs |-> [doc |-> "None"]],
      [ok |-> TRUE,
       members |-> [initialize |-> "function", shutdown |-> "function",
                    fn |-> "function", data |-> "data"],
       attrs |-> [doc |-> "None", dependencies |-> <<"B">>]],
      [ok |-> TRUE, members |-> [shutdown |-> "function"],
       attrs |-> [doc |-> "None"]] }

QueryImportInputs(id) ==
    IF id \in DOMAIN sys_modules THEN {[ok |-> FALSE]}
    ELSE QueryImportChoices

\* the metadata file: absent, one that makes the load fail, or one that
\* declares a dependency on A
QueryExtChoices ==
    { [kind |-> "absent"], [kind |-> "raises"],
      [kind |-> "object", fields |-> [dependencies |-> <<"A">>]] }

\* the file that declares the dependency on A is the one of B
QueryExtInputs(id, reading) ==
    IF reading
    THEN {ext \in QueryExtChoices : ext.kind = "object" => id = "B"}
    ELSE {[kind |-> "absent"]}

\* the keys of dictionary d in insertion order after a call on id, given
\* their order before it; `deleted` says that the call deleted the key id,
\* so that an id still in d was inserted again, at the end
KeysAfter(order, d, id, deleted) ==
    LET Keep(k) == k \in DOMAIN d /\ (k # id \/ ~deleted)
        kept == SelectSeq(order, Keep)
    IN IF id \in DOMAIN d /\ (\A i \in 1..Len(kept) : kept[i] # id)
       THEN Append(kept, id)
       ELSE kept

\* what the three queries answer about id in state st with key order k
Observe(st, k, id) ==
    [id |-> id,
     info |-> [raised |-> get_addon_info(st, id).raised,
               info |-> get_addon_info(st, id).info],
     loaded |-> get_loaded_addons(k),
     active |-> get_active_addons(k)]

\* the key orders and the history after the call on id that returned r
Follows(id, r, loadedDeleted, activeDeleted, registered) ==
    /\ keys' = [loaded |-> KeysAfter(keys.loaded, r.st.loaded, id,
                                     loadedDeleted),
                active |-> KeysAfter(keys.active, r.st.active, id,
                                     activeDeleted)]
    /\ hist' = [ever_loaded |-> hist.ever_loaded
                                \cup (IF registered THEN {id} ELSE {}),
                before |-> Observe(Cur, keys, id),
                earlier |-> IF last.op = "deactivate" /\ last.ret
                            THEN [op |-> last.op, id |-> last.id,
                                  ret |-> last.ret, before |-> hist.before]
                            ELSE NoEarlier]
    /\ UNCHANGED <<threads, forked>>

LoadQ ==
    \E id \in Addons :
    \E imp \in QueryImportInputs(id),
       ext \in QueryExtInputs(id, id \notin DOMAIN loaded_addons) :
      LET r == load_addon(Cur, id, imp, ext)
      IN /\ r.st.path <= MaxPathLeak
         /\ Takes(r.st)
         /\ last' = [Call("load", id, r, "", NoSteps)
                       EXCEPT !.ext = ExtRead(r.st.events, ext)]
         /\ Follows(id, r, FALSE, FALSE, r.ret)

ActivateQ ==
    \E id \in Addons :
    \E initOk \in InitInputs(id) :
      LET r == activate_addon(Cur, id, initOk)
      IN /\ Takes(r.st)
         /\ last' = [Call("activate", id, r, r.why, NoSteps)
                       EXCEPT !.value = GetOr(r, "dep", "")]
         /\ Follows(id, r, FALSE, FALSE, FALSE)

DeactivateQ ==
    \E id \in Addons :
    \E shutOk \in ShutdownInputs(id) :
      LET r == deactivate_addon(Cur, id, shutOk)
      IN /\ Takes(r.st)
         /\ last' = Call("deactivate", id, r, r.why, NoSteps)
         /\ Follows(id, r, FALSE, FALSE, FALSE)

ReloadQ ==
    \E id \in Addons :
    \E shutOk \in ShutdownInputs(id), imp \in QueryImportInputs(id),
       ext \in QueryExtInputs(id, id \in DOMAIN loaded_addons),
       initOk \in ReloadInitInputs(id) :
      LET r == reload_addon(Cur, id, shutOk, imp, ext, initOk)
      IN /\ r.st.path <= MaxPathLeak
         /\ Takes(r.st)
         /\ last' = [Call("reload", id, r, "", r.steps)
                       EXCEPT !.raised = IF r.raised THEN "KeyError" ELSE "",
                              !.ext = ExtRead(r.st.events, ext)]
         /\ Follows(id, r, r.steps.unloadRan, r.steps.deactRet,
                    r.steps.loadRet)

InvokeQ ==
    \E id \in Addons :
      LET r == execute_addon_function(Cur, id, "fn", <<"arg1">>,
                                      [ok |-> TRUE, value |-> "result"])
      IN /\ Takes(r.st)
         /\ last' = [Call("invoke", id, r, "", NoSteps)
                       EXCEPT !.fn = "fn", !.args = <<"arg1">>,
                              !.raised = r.raised, !.value = r.value]
         /\ Follows(id, r, FALSE, FALSE, FALSE)

Info ==
    \E id \in Addons :
      LET r == get_addon_info(Cur, id)
      IN /\ Takes(r.st)
         /\ last' = [Call("info", id, r, "", NoSteps)
                       EXCEPT !.raised = r.raised, !.value = r.value,
                              !.info = r.info]
         /\ Follows(id, r, FALSE, FALSE, FALSE)

ListLoaded ==
    LET r == [ret |-> TRUE, st |-> Cur]
    IN /\ Takes(r.st)
       /\ last' = [Call("listLoaded", "", r, "", NoSteps)
                     EXCEPT !.list = get_loaded_addons(keys)]
       /\ Follows("", r, FALSE, FALSE, FALSE)

ListActive ==
    LET r == [ret |-> TRUE, st |-> Cur]
    IN /\ Takes(r.st)
       /\ last' = [Call("listActive", "", r, "", NoSteps)
                     EXCEPT !.list = get_active_addons(keys)]
       /\ Follows("", r, FALSE, FALSE, FALSE)

NextQueries ==
    \/ LoadQ \/ ActivateQ \/ DeactivateQ \/ ReloadQ \/ InvokeQ
    \/ Info \/ ListLoaded \/ ListActive

SpecQueries == Init /\ [][NextQueries]_vars

----------------------------------------------------------------------------
(* Two callers.  The class takes no lock, so the statements of two calls   *)
(* made from two threads interleave; a step of SpecConcurrent is one       *)
(* statement of activate_addon, reload_addon or get_addon_info.  The       *)
(* deactivate_addon and load_addon that reload_addon calls run as one      *)
(* step each, the activate_addon it calls statement by statement.  The     *)
(* addons here are complete ones without dependencies or metadata file,    *)
(* and their initialize and shutdown return normally.                      *)

\* the calls two callers make at the same time
ConcurrentOps == {"activate", "reload", "info"}

\* the addon file of SpecConcurrent
PlainUnit ==
    [ok |-> TRUE,
     members |-> [initialize |-> "function", shutdown |-> "function",
                  fn |-> "function", data |-> "data"],
     attrs |-> [doc |-> "None"]]

AllIdle == \A t \in Threads : threads[t].pc = "idle"

SameManager ==
    UNCHANGED <<loaded_addons, active_addons, addon_metadata, sys_modules,
                sys_path, nextUid>>

\* thread t goes on as `rec`
Goes(t, rec) ==
    /\ threads' = [threads EXCEPT ![t] = rec]
    /\ UNCHANGED <<last, keys, hist, forked>>

\* the call of the thread returns ret, or raises
Returns(rec, ret) == [rec EXCEPT !.pc = "done", !.ret = ret]
Raises(rec, exc) == [rec EXCEPT !.pc = "done", !.raised = exc]

\* the first statement of each operation
FirstStatement(op) ==
    CASE op = "activate" -> "activate_119"
      [] op = "reload"   -> "reload_219"
      [] op = "info"     -> "info_190"

\* load_addon called while no other call is in progress
LoadAlone ==
    \E id \in Addons :
      LET r == load_addon(Cur, id, PlainUnit, [kind |-> "absent"])
      IN /\ AllIdle
         /\ Takes(r.st)
         /\ UNCHANGED <<last, keys, hist, threads, forked>>

\* activate_addon called while no other call is in progress
ActivateAlone ==
    \E id \in Addons :
      LET r == activate_addon(Cur, id, TRUE)
      IN /\ AllIdle
         /\ Takes(r.st)
         /\ UNCHANGED <<last, keys, hist, threads, forked>>

\* the two threads each begin a call on the same addon
Fork ==
    \E id \in Addons :
    \E ops \in [Threads -> ConcurrentOps] :
      /\ AllIdle
      /\ threads' = [t \in Threads |->
                       [IdleThread EXCEPT !.op = ops[t], !.id = id,
                                          !.pc = FirstStatement(ops[t])]]
      /\ forked' = [forked |-> TRUE, st |-> Cur]
      /\ SameManager
      /\ UNCHANGED <<last, keys, hist>>

\* both calls have ended
Join ==
    /\ \A t \in Threads : threads[t].pc = "done"
    /\ threads' = [t \in Threads |-> IdleThread]
    /\ forked' = NotForked
    /\ SameManager
    /\ UNCHANGED <<last, keys, hist>>

\* activate_addon, lines 119-121
ActivateCheckLoaded ==
    \E t \in Threads :
      LET rec == threads[t]
      IN /\ rec.pc = "activate_119"
         /\ Goes(t, IF rec.id \notin DOMAIN loaded_addons
                    THEN Returns(rec, FALSE)
                    ELSE [rec EXCEPT !.pc = "activate_123"])
         /\ SameManager

\* activate_addon, lines 123-125
ActivateCheckActive ==
    \E t \in Threads :
      LET rec == threads[t]
      IN /\ rec.pc = "activate_123"
         /\ Goes(t, IF rec.id \in DOMAIN active_addons
                    THEN Returns(rec, FALSE)
                    ELSE [rec EXCEPT !.pc = "activate_127"])
         /\ SameManager

\* activate_addon, line 127: the lookup is outside the try
ActivateGetModule ==
    \E t \in Threads :
      LET rec == threads[t]
      IN /\ rec.pc = "activate_127"
         /\ Goes(t, IF rec.id \notin DOMAIN loaded_addons
                    THEN Raises(rec, "KeyError")
                    ELSE [rec EXCEPT !.pc = "activate_131",
                                     !.addon_module = loaded_addons[rec.id]])
         /\ SameManager

\* activate_addon, line 131: an exception of the check is caught at 141
ActivateCheckDependencies ==
    \E t \in Threads :
      LET rec == threads[t]
      IN /\ rec.pc = "activate_131"
         /\ Goes(t, IF ~_check_dependencies(Cur, rec.id).ok
                    THEN Returns(rec, FALSE)
                    ELSE [rec EXCEPT !.pc = "activate_134"])
         /\ SameManager

\* activate_addon, line 134
ActivateInitialize ==
    \E t \in Threads :
      LET rec == threads[t]
      IN /\ rec.pc = "activate_134"
         /\ Goes(t, [rec EXCEPT !.pc = "activate_137",
                                !.inits = rec.inits + 1])
         /\ SameManager

\* activate_addon, lines 137-139
ActivateStore ==
    \E t \in Threads :
      LET rec == threads[t]
      IN /\ rec.pc = "activate_137"
         /\ active_addons' = DictSet(active_addons, rec.id, rec.addon_module)
         /\ Goes(t, Returns(rec, TRUE))
         /\ UNCHANGED <<loaded_addons, addon_metadata, sys_modules,
                         sys_path, nextUid>>

\* reload_addon, lines 219-221
ReloadCheckLoaded ==
    \E t \in Threads :
      LET rec == threads[t]
      IN /\ rec.pc = "reload_219"
         /\ Goes(t, IF rec.id \notin DOMAIN loaded_addons
                    THEN Returns(rec, FALSE)
                    ELSE [rec EXCEPT !.pc = "reload_223"])
         /\ SameManager

\* reload_addon, lines 223-226
ReloadWasActive ==
    \E t \in Threads :
      LET rec == threads[t]
          was_active == rec.id \in DOMAIN active_addons
      IN /\ rec.pc = "reload_223"
         /\ Goes(t, [rec EXCEPT !.was_active = was_active,
                                !.pc = IF was_active THEN "reload_227"
                                       ELSE "reload_230"])
         /\ SameManager

\* reload_addon, line 227: the result of deactivate_addon is not used
ReloadDeactivate ==
    \E t \in Threads :
      LET rec == threads[t]
          r == deactivate_addon(Cur, rec.id, TRUE)
      IN /\ rec.pc = "reload_227"
         /\ Takes(r.st)
         /\ Goes(t, [rec EXCEPT !.pc = "reload_230"])

\* reload_addon, line 230
ReloadDelLoaded ==
    \E t \in Threads :
      LET rec == threads[t]
      IN /\ rec.pc = "reload_230"
         /\ IF rec.id \notin DOMAIN loaded_addons
            THEN /\ Goes(t, Raises(rec, "KeyError"))
                 /\ SameManager
            ELSE /\ loaded_addons' = DictDel(loaded_addons, rec.id)
                 /\ Goes(t, [rec EXCEPT !.pc = "reload_231"])
                 /\ UNCHANGED <<active_addons, addon_metadata, sys_modules,
                                 sys_path, nextUid>>

\* reload_addon, line 231
ReloadDelMetadata ==
    \E t \in Threads :
      LET rec == threads[t]
      IN /\ rec.pc = "reload_231"
         /\ IF rec.id \notin DOMAIN addon_metadata
            THEN /\ Goes(t, Raises(rec, "KeyError"))
                 /\ SameManager
            ELSE /\ addon_metadata' = DictDel(addon_metadata, rec.id)
                 /\ Goes(t, [rec EXCEPT !.pc = "reload_234"])
                 /\ UNCHANGED <<loaded_addons, active_addons, sys_modules,
                                 sys_path, nextUid>>

\* reload_addon, lines 234-239: after the load, the activate_addon of line
\* 237 when the addon was active
ReloadLoad ==
    \E t \in Threads :
      LET rec == threads[t]
          r == load_addon(Cur, rec.id, PlainUnit, [kind |-> "absent"])
      IN /\ rec.pc = "reload_234"
         /\ Takes(r.st)
         /\ Goes(t, IF ~r.ret THEN Returns(rec, FALSE)
                    ELSE IF rec.was_active
                    THEN [rec EXCEPT !.pc = "activate_119"]
                    ELSE Returns(rec, TRUE))

\* get_addon_info, lines 190-191
InfoCheckLoaded ==
    \E t \in Threads :
      LET rec == threads[t]
      IN /\ rec.pc = "info_190"
         /\ Goes(t, IF rec.id \notin DOMAIN loaded_addons
                    THEN Raises(rec, "ValueError")
                    ELSE [rec EXCEPT !.pc = "info_193"])
         /\ SameManager

\* get_addon_info, line 193
InfoGetModule ==
    \E t \in Threads :
      LET rec == threads[t]
      IN /\ rec.pc = "info_193"
         /\ Goes(t, IF rec.id \notin DOMAIN loaded_addons
                    THEN Raises(rec, "KeyError")
                    ELSE [rec EXCEPT !.pc = "info_194",
                                     !.addon_module = loaded_addons[rec.id]])
         /\ SameManager

\* get_addon_info, lines 194-203
InfoBuild ==
    \E t \in Threads :
      LET rec == threads[t]
          metadata == GetOr(addon_metadata, rec.id, EmptyDict)
          info ==
            [name |-> rec.id,
             version |-> GetOr(metadata, "version", "Unknown"),
             author |-> GetOr(metadata, "author", "Unknown"),
             description |-> GetOr(metadata, "description",
                                   "No description provided."),
             status |-> IF rec.id \in DOMAIN active_addons
                        THEN "Active" ELSE "Inactive",
             dependencies |-> GetOr(metadata, "dependencies", << >>)]
      IN /\ rec.pc = "info_194"
         /\ Goes(t, [rec EXCEPT !.pc = "info_206", !.info = info])
         /\ SameManager

\* get_addon_info, lines 206-210
InfoMembers ==
    \E t \in Threads :
      LET rec == threads[t]
          public_items == getmembers(rec.addon_module)
      IN /\ rec.pc = "info_206"
         /\ Goes(t, IF ~public_items.ok
                    THEN [Raises(rec, "AttributeError") EXCEPT
                            !.info = NoInfo]
                    ELSE Returns(
                           [rec EXCEPT !.info =
                              DictUpdate(rec.info,
                                [functions |->
                                   {n \in DOMAIN public_items.items :
                                      public_items.items[n] = "function"},
                                 classes |->
                                   {n \in DOMAIN public_items.items :
                                      public_items.items[n] = "class"}])],
                           TRUE))
         /\ SameManager

NextConcurrent ==
    \/ LoadAlone \/ ActivateAlone \/ Fork \/ Join
    \/ ActivateCheckLoaded \/ ActivateCheckActive \/ ActivateGetModule
    \/ ActivateCheckDependencies \/ ActivateInitialize \/ ActivateStore
    \/ ReloadCheckLoaded \/ ReloadWasActive \/ ReloadDeactivate
    \/ ReloadDelLoaded \/ ReloadDelMetadata \/ ReloadLoad
    \/ InfoCheckLoaded \/ InfoGetModule \/ InfoBuild \/ InfoMembers

SpecConcurrent == Init /\ [][NextConcurrent]_vars

----------------------------------------------------------------------------
(* Vocabulary of the properties.  A step of Next is one call; `last` in    *)
(* the state after the step describes that call.                           *)

\* the step is the call op(id)
Called(op, id) == last'.op = op /\ last'.id = id

\* the three dictionaries are as they were before the call
RegistryUnchanged == UNCHANGED <<loaded_addons, active_addons, addon_metadata>>

\* the call ran the unit's `what` (initialize, shutdown, exec)
Invoked(ev, what) == \E i \in 1..Len(ev) : ev[i][1] = what

\* the call ran the unit's `what` and it failed
InvokedAndFailed(ev, what) ==
    \E i \in 1..Len(ev) : ev[i][1] = what /\ ~ev[i][3]

LoadedSet == DOMAIN loaded_addons
ActiveSet == DOMAIN active_addons

\* the resolved dependency list of a registered addon
Dependencies(id) == GetOr(addon_metadata[id], "dependencies", << >>)

AllDependenciesActive(id) ==
    \A i \in 1..Len(Dependencies(id)) : Dependencies(id)[i] \in ActiveSet

----------------------------------------------------------------------------
(* Properties *)

\* C1: activate(id) on a Loaded, not yet Active addon makes it Active if and
\* only if every identifier of its dependency list is Active at the call,
\* given that initialize does not fail; with a dependency that is not Active
\* (not loaded, or loaded but inactive) the call returns failure.
C1_ActivateIffDependenciesActive ==
    [][\A id \in Addons :
         (Called("activate", id) /\ id \in LoadedSet /\ id \notin ActiveSet)
         => /\ ~AllDependenciesActive(id)
               => ~last'.ret /\ id \notin DOMAIN active_addons'
            /\ (AllDependenciesActive(id)
                /\ ~InvokedAndFailed(last'.events, "initialize"))
               => last'.ret /\ id \in DOMAIN active_addons'
            /\ ~InvokedAndFailed(last'.events, "initialize")
               => (id \in DOMAIN active_addons' <=> AllDependenciesActive(id))
      ]_vars

\* an addon with a dependency has just been activated
C1_Witness ==
    \E id \in Addons :
      /\ last.op = "activate" /\ last.id = id /\ last.ret
      /\ id \in ActiveSet
      /\ Len(Dependencies(id)) > 0
      /\ id \notin {Dependencies(id)[i] : i \in 1..Len(Dependencies(id))}

\* C2: when activate(id) fails because a dependency is not Active, nothing
\* changes: the loaded set, the active set and the metadata are as before
\* the call, the addon is still Loaded, and initialize was not invoked.
C2_MissingDependencyNoChange ==
    [][\A id \in Addons :
         (Called("activate", id) /\ id \in LoadedSet /\ id \notin ActiveSet
          /\ ~AllDependenciesActive(id))
         => /\ ~last'.ret
            /\ RegistryUnchanged
            /\ id \in DOMAIN loaded_addons' /\ id \notin DOMAIN active_addons'
            /\ ~Invoked(last'.events, "initialize")
      ]_vars

\* an activation has just failed on a dependency that is loaded but inactive
C2_Witness ==
    \E id \in Addons :
      /\ last.op = "activate" /\ last.id = id /\ ~last.ret
      /\ last.why = "MissingDependency"
      /\ id \in LoadedSet /\ id \notin ActiveSet
      /\ \E i \in 1..Len(Dependencies(id)) :
           /\ Dependencies(id)[i] # id
           /\ Dependencies(id)[i] \in LoadedSet \ ActiveSet

\* C3: when activate(id) passes the dependency check and initialize fails,
\* activate returns failure, the addon is not in the active set after the
\* call and is still Loaded.
C3_InitializeFailureStaysLoaded ==
    [][\A id \in Addons :
         (Called("activate", id) /\ id \in LoadedSet /\ id \notin ActiveSet
          /\ AllDependenciesActive(id)
          /\ InvokedAndFailed(last'.events, "initialize"))
         => /\ ~last'.ret
            /\ id \notin DOMAIN active_addons'
            /\ id \in DOMAIN loaded_addons'
            /\ RegistryUnchanged
      ]_vars

\* initialize has just failed in an activation whose dependencies were met
C3_Witness ==
    \E id \in Addons :
      /\ last.op = "activate" /\ last.id = id /\ ~last.ret
      /\ last.why = "UnitFailure"
      /\ InvokedAndFailed(last.events, "initialize")
      /\ id \in LoadedSet /\ id \notin ActiveSet

\* C4: when reload(id) is called on an Active addon and shutdown fails,
\* reload returns failure with the registry unchanged and performs no
\* unload and no load step.
C4_ReloadAbortsOnShutdownFailure ==
    [][\A id \in Addons :
         (Called("reload", id) /\ id \in LoadedSet /\ id \in ActiveSet
          /\ InvokedAndFailed(last'.events, "shutdown"))
         => /\ ~last'.ret
            /\ RegistryUnchanged
            /\ ~last'.steps.unloadRan
            /\ ~last'.steps.loadRan
      ]_vars

\* C5: when the load step of reload(id) fails, reload returns failure and
\* id is in neither the loaded set, the active set nor the metadata map.
C5_FailedReloadUnregisters ==
    [][\A id \in Addons :
         (Called("reload", id) /\ id \in LoadedSet
          /\ last'.steps.loadRan /\ ~last'.steps.loadRet)
         => /\ ~last'.ret
            /\ id \notin DOMAIN loaded_addons'
            /\ id \notin DOMAIN active_addons'
            /\ id \notin DOMAIN addon_metadata'
      ]_vars

\* C6: a successful reload(id) of an Active addon whose dependencies are
\* unchanged leaves it Active, and the unit held afterwards is not the unit
\* instance held before the reload.
C6_ReloadGivesFreshUnit ==
    [][\A id \in Addons :
         (Called("reload", id) /\ id \in LoadedSet /\ id \in ActiveSet
          /\ last'.ret
          /\ id \in DOMAIN addon_metadata'
          /\ GetOr(addon_metadata'[id], "dependencies", << >>)
               = Dependencies(id))
         => /\ id \in DOMAIN active_addons'
            /\ id \in DOMAIN loaded_addons'
            /\ loaded_addons'[id].uid # loaded_addons[id].uid
            /\ active_addons'[id].uid # active_addons[id].uid
      ]_vars

\* C7: reload(id) returns success exactly when its load step succeeded and,
\* if the addon was Active at the call, its re-activation succeeded too; a
\* successful reload of a Loaded, inactive addon leaves it Loaded and
\* inactive and invokes neither initialize nor shutdown.
C7_ReloadResult ==
    [][\A id \in Addons :
         (Called("reload", id) /\ id \in LoadedSet)
         => /\ last'.ret
                 <=> /\ last'.steps.loadRan /\ last'.steps.loadRet
                     /\ id \in ActiveSet
                          => last'.steps.actRan /\ last'.steps.actRet
            /\ id \in ActiveSet /\ last'.ret
                 => id \in DOMAIN active_addons'
            /\ id \notin ActiveSet /\ last'.ret
                 => /\ id \in DOMAIN loaded_addons'
                    /\ id \notin DOMAIN active_addons'
                    /\ ~Invoked(last'.events, "initialize")
                    /\ ~Invoked(last'.events, "shutdown")
      ]_vars

\* a reload of an Active addon has just failed in its re-activation after
\* its load step succeeded
C7_Witness ==
    \E id \in Addons :
      /\ last.op = "reload" /\ last.id = id /\ ~last.ret
      /\ last.steps.was_active
      /\ last.steps.loadRan /\ last.steps.loadRet
      /\ last.steps.actRan /\ ~last.steps.actRet
      /\ InvokedAndFailed(last.events, "initialize")

\* C8: when deactivate(id) is called on an Active addon and shutdown fails,
\* deactivate returns failure and the addon is still Active, with the
\* registry unchanged.
C8_ShutdownFailureStaysActive ==
    [][\A id \in Addons :
         (Called("deactivate", id) /\ id \in ActiveSet
          /\ InvokedAndFailed(last'.events, "shutdown"))
         => /\ ~last'.ret
            /\ id \in DOMAIN active_addons'
            /\ RegistryUnchanged
      ]_vars

\* shutdown has just failed in a deactivate call
C8_Witness ==
    \E id \in Addons :
      /\ last.op = "deactivate" /\ last.id = id /\ ~last.ret
      /\ InvokedAndFailed(last.events, "shutdown")
      /\ id \in ActiveSet

\* C9: when deactivate(id) is called on an Active addon and shutdown
\* succeeds, the addon becomes Loaded: it leaves the active set and is in
\* the loaded set with the same unit and the same metadata.
C9_DeactivateToLoaded ==
    [][\A id \in Addons :
         (Called("deactivate", id) /\ id \in ActiveSet
          /\ ~InvokedAndFailed(last'.events, "shutdown"))
         => /\ last'.ret
            /\ id \notin DOMAIN active_addons'
            /\ id \in DOMAIN loaded_addons'
            /\ loaded_addons'[id] = active_addons[id]
            /\ id \in DOMAIN addon_metadata'
            /\ UNCHANGED <<loaded_addons, addon_metadata>>
      ]_vars

\* C10: load(id) on an addon that is already Loaded or Active returns false
\* and leaves the loaded set, the active set, the units and the metadata
\* unchanged, and does not materialize the unit again.
C10_DuplicateLoadNoChange ==
    [][\A id \in Addons :
         (Called("load", id) /\ (id \in LoadedSet \/ id \in ActiveSet))
         => /\ ~last'.ret
            /\ RegistryUnchanged
            /\ UNCHANGED <<sys_modules, nextUid>>
      ]_vars

----------------------------------------------------------------------------
(* Further vocabulary *)

\* the unit lacks a callable initialize or a callable shutdown
InvalidUnit(u) ==
    \/ ~IsCallable(u.members, "initialize")
    \/ ~IsCallable(u.members, "shutdown")

\* code of the unit itself failed during the call
UnitCodeFailed(ev) ==
    \/ InvokedAndFailed(ev, "exec")
    \/ InvokedAndFailed(ev, "initialize")
    \/ InvokedAndFailed(ev, "shutdown")

\* every active addon is loaded with the same unit, and metadata is held
\* exactly for the loaded addons
ConsistentRegistry ==
    /\ ActiveSet \subseteq LoadedSet
    /\ DOMAIN addon_metadata = LoadedSet
    /\ \A id \in ActiveSet \cap LoadedSet :
         active_addons[id] = loaded_addons[id]

\* the events of the call that are calls of a function of the unit
CallEvents(ev) == {i \in 1..Len(ev) : ev[i][1] = "call"}

----------------------------------------------------------------------------
(* Properties, continued *)

\* C11: load(id) fails for a unit that lacks a callable initialize or a
\* callable shutdown, before metadata is resolved and before anything is
\* registered: afterwards id is in neither the loaded set nor the metadata
\* map.
C11_InvalidUnitNotRegistered ==
    [][\A id \in Addons :
         (Called("load", id) /\ id \notin LoadedSet
          /\ id \in DOMAIN sys_modules'
          /\ InvalidUnit(sys_modules'[id]))
         => /\ ~last'.ret
            /\ ~Invoked(last'.events, "resolve")
            /\ id \notin DOMAIN loaded_addons'
            /\ id \notin DOMAIN addon_metadata'
            /\ RegistryUnchanged
      ]_vars

\* a load has just materialized a unit without a callable initialize and
\* failed, and the other addon's unit has a shutdown that is not callable
C11_Witness ==
    \E id \in Addons, other \in Addons :
      /\ last.op = "load" /\ last.id = id /\ ~last.ret
      /\ Invoked(last.events, "exec")
      /\ id \in DOMAIN sys_modules
      /\ ~IsCallable(sys_modules[id].members, "initialize")
      /\ id \notin LoadedSet
      /\ other \in DOMAIN sys_modules
      /\ IsCallable(sys_modules[other].members, "initialize")
      /\ ~IsCallable(sys_modules[other].members, "shutdown")
      /\ other \notin LoadedSet

\* C12: whenever load(id) returns failure, whatever the reason, the loaded
\* set, the active set and the metadata map are as they were before the
\* call.
C12_FailedLoadNoPartialEntry ==
    [][\A id \in Addons :
         (Called("load", id) /\ ~last'.ret) => RegistryUnchanged
      ]_vars

\* a load has just failed in the resolution of the metadata of a valid unit
C12_Witness ==
    \E id \in Addons :
      /\ last.op = "load" /\ last.id = id /\ ~last.ret
      /\ InvokedAndFailed(last.events, "resolve")
      /\ id \in DOMAIN sys_modules /\ ~InvalidUnit(sys_modules[id])
      /\ id \notin LoadedSet

\* C13: a successful load(id) registers the addon Loaded and not Active,
\* with its metadata, and invokes neither initialize nor shutdown; an addon
\* that was not Active becomes Active only by a successful activate.
C13_LoadRegistersLoadedNotActive ==
    [][\A id \in Addons :
         /\ (Called("load", id) /\ last'.ret)
            => /\ id \in DOMAIN loaded_addons'
               /\ id \notin DOMAIN active_addons'
               /\ id \in DOMAIN addon_metadata'
               /\ ~Invoked(last'.events, "initialize")
               /\ ~Invoked(last'.events, "shutdown")
         /\ (id \notin ActiveSet /\ id \in DOMAIN active_addons')
            => (Called("activate", id) /\ last'.ret)
      ]_vars

\* C14: activate(id) on an addon that is not loaded, or that is already
\* Active, returns failure, changes nothing in the registry and does not
\* invoke initialize.
C14_ActivateGuards ==
    [][\A id \in Addons :
         (Called("activate", id)
          /\ (id \notin LoadedSet \/ id \in ActiveSet))
         => /\ ~last'.ret
            /\ RegistryUnchanged
            /\ ~Invoked(last'.events, "initialize")
      ]_vars

\* activate has just been refused on an addon that is already Active
C14_Witness ==
    \E id \in Addons :
      /\ last.op = "activate" /\ last.id = id /\ ~last.ret
      /\ last.why = "AlreadyActive"
      /\ id \in LoadedSet /\ id \in ActiveSet
      /\ AllDependenciesActive(id)

\* C15: deactivate(id) on an addon that is not Active, unloaded or Loaded
\* but inactive, returns failure, changes nothing in the registry and does
\* not invoke shutdown.
C15_DeactivateGuard ==
    [][\A id \in Addons :
         (Called("deactivate", id) /\ id \notin ActiveSet)
         => /\ ~last'.ret
            /\ RegistryUnchanged
            /\ ~Invoked(last'.events, "shutdown")
      ]_vars

\* deactivate has just been refused on an addon that is Loaded but inactive
C15_Witness ==
    \E id \in Addons :
      /\ last.op = "deactivate" /\ last.id = id /\ ~last.ret
      /\ last.why = "NotActive"
      /\ id \in LoadedSet /\ id \notin ActiveSet

\* C16: an entry is removed, by the unload step of reload included, only when
\* the addon is Loaded: the unload step never runs on an addon whose
\* deactivation failed, and no call leaves an addon Active without its
\* entry.
C16_RemovedOnlyWhenLoaded ==
    [][\A id \in Addons :
         /\ (Called("reload", id) /\ last'.steps.unloadRan
             /\ last'.steps.was_active)
            => last'.steps.deactRet
         /\ (id \in LoadedSet /\ id \notin DOMAIN loaded_addons')
            => id \notin DOMAIN active_addons'
      ]_vars

\* C17: load, activate, deactivate and reload never propagate a failure of
\* the unit's own code: the call returns false, raises nothing, and leaves
\* a consistent registry consistent.
C17_UnitFailureContained ==
    [][\A id \in Addons :
       \A op \in {"load", "activate", "deactivate", "reload"} :
         (Called(op, id) /\ UnitCodeFailed(last'.events)
          /\ ConsistentRegistry)
         => /\ last'.raised = ""
            /\ ~last'.ret
            /\ ConsistentRegistry'
      ]_vars

\* C18: invoke(id, name) on an addon that is not Active, unloaded or Loaded
\* but inactive, fails with the not-active error and calls nothing on the
\* unit.
C18_InvokeNotActive ==
    [][\A id \in Addons :
         (Called("invoke", id) /\ id \notin ActiveSet)
         => /\ ~last'.ret
            /\ last'.raised = "ValueError" /\ last'.value = "NotActive"
            /\ last'.events = << >>
            /\ RegistryUnchanged
      ]_vars

\* invoke has just been refused on an addon that is Loaded but inactive
C18_Witness ==
    \E id \in Addons :
      /\ last.op = "invoke" /\ last.id = id
      /\ last.raised = "ValueError"
      /\ id \in LoadedSet /\ id \notin ActiveSet
      /\ last.fn \in DOMAIN loaded_addons[id].members

\* C19: invoke(id, name) on an Active addon whose unit has no member called
\* name fails with the capability-not-found error, calls nothing and leaves
\* the registry unchanged.
C19_InvokeMissingCapability ==
    [][\A id \in Addons :
         (Called("invoke", id) /\ id \in ActiveSet
          /\ last'.fn \notin DOMAIN active_addons[id].members)
         => /\ ~last'.ret
            /\ last'.raised = "AttributeError"
            /\ last'.value = "CapabilityNotFound"
            /\ last'.events = << >>
            /\ RegistryUnchanged
      ]_vars

\* invoke of a missing name has just failed on an Active addon
C19_Witness ==
    \E id \in Addons :
      /\ last.op = "invoke" /\ last.id = id /\ ~last.ret
      /\ last.fn = "missing_fn"
      /\ last.raised = "AttributeError"
      /\ id \in ActiveSet

\* C20: invoke(id, name, args) on an Active addon that has the callable
\* calls it exactly once, with the given arguments, returns what it
\* returned or raises what it raised, and changes nothing in the loaded
\* set, the active set or the metadata.
C20_InvokeDispatchesOnce ==
    [][\A id \in Addons :
         (Called("invoke", id) /\ id \in ActiveSet
          /\ IsCallable(active_addons[id].members, last'.fn))
         => /\ Cardinality(CallEvents(last'.events)) = 1
            /\ Len(last'.events) = 1
            /\ LET ev == last'.events[1]
               IN /\ ev[2] = active_addons[id].uid
                  /\ ev[4] = last'.fn
                  /\ ev[5] = last'.args
                  /\ last'.value = ev[6]
                  /\ last'.ret = ev[3]
                  /\ last'.raised = IF ev[3] THEN "" ELSE "UnitFailure"
            /\ RegistryUnchanged
      ]_vars

\* an invoked function has just raised and the failure was propagated
C20_Witness ==
    \E id \in Addons :
      /\ last.op = "invoke" /\ last.id = id /\ ~last.ret
      /\ last.raised = "UnitFailure" /\ last.value = "error"
      /\ last.args = <<"arg1">>
      /\ Cardinality(CallEvents(last.events)) = 1
      /\ id \in ActiveSet

----------------------------------------------------------------------------
(* Dependencies and metadata *)

\* the addon `a` is in the resolved dependency list of the registered `b`
DependsOn(b, a) ==
    /\ b \in DOMAIN addon_metadata
    /\ \E i \in 1..Len(Dependencies(b)) : Dependencies(b)[i] = a

\* the positions of the dependency list of id that are not Active
Unsatisfied(id) ==
    {i \in 1..Len(Dependencies(id)) : Dependencies(id)[i] \notin ActiveSet}

\* the metadata the unit alone declares
UnitDeclared(id, u) == _load_addon_metadata(id, u, [kind |-> "absent"]).metadata

\* the step registered id, by load or by the load inside reload
Registered(id) ==
    \/ Called("load", id) /\ last'.ret
    \/ Called("reload", id) /\ last'.steps.loadRet

\* C21: deactivate(a) succeeds while another addon b that declares a as a
\* dependency is Active: afterwards a is Loaded and b is still Active.
C21_NoReverseDependencyLock ==
    [][\A a \in Addons : \A b \in Addons \ {a} :
         (Called("deactivate", a) /\ a \in ActiveSet /\ b \in ActiveSet
          /\ DependsOn(b, a)
          /\ ~InvokedAndFailed(last'.events, "shutdown"))
         => /\ last'.ret
            /\ a \notin DOMAIN active_addons'
            /\ a \in DOMAIN loaded_addons'
            /\ b \in DOMAIN active_addons'
      ]_vars

\* C23: when activate(id) finds dependencies that are not Active, it fails
\* with MissingDependency naming the first of them in the order of the
\* dependency list, and initialize is not called.
C23_FirstMissingDependencyNamed ==
    [][\A id \in Addons :
         (Called("activate", id) /\ id \in LoadedSet /\ id \notin ActiveSet
          /\ Unsatisfied(id) # {})
         => /\ ~last'.ret
            /\ last'.why = "MissingDependency"
            /\ \E i \in Unsatisfied(id) :
                  /\ \A j \in Unsatisfied(id) : i <= j
                  /\ last'.value = Dependencies(id)[i]
            /\ ~Invoked(last'.events, "initialize")
      ]_vars

\* an activation failed on two missing dependencies and named the first
C23_Witness ==
    /\ last.op = "activate"
    /\ last.why = "MissingDependency"
    /\ last.id \in LoadedSet
    /\ Cardinality(Unsatisfied(last.id)) >= 2
    /\ last.value = Dependencies(last.id)[1]

\* C28: when load resolves metadata with an external record, every field
\* of the record replaces the unit-declared value, every other field keeps
\* the unit-declared value, and activation checks the resolved list: it
\* fails with MissingDependency exactly when an entry of it is not Active.
C28_ExternalRecordOverrides ==
    [][\A id \in Addons :
         /\ (Registered(id) /\ last'.ext.kind = "object")
            => LET declared == UnitDeclared(id, loaded_addons'[id])
                   record == last'.ext.fields
                   resolved == addon_metadata'[id]
               IN /\ DOMAIN resolved = DOMAIN declared \cup DOMAIN record
                  /\ \A f \in DOMAIN resolved :
                        resolved[f] = IF f \in DOMAIN record
                                      THEN record[f] ELSE declared[f]
         /\ (Called("activate", id) /\ id \in LoadedSet
             /\ id \notin ActiveSet)
            => (last'.why = "MissingDependency"
                <=> \E i \in 1..Len(addon_metadata[id].dependencies) :
                      addon_metadata[id].dependencies[i] \notin ActiveSet)
      ]_vars

\* an addon whose unit declares no dependency was loaded with a record that
\* adds one, and its activation failed on it
C28_Witness ==
    /\ last.op = "activate"
    /\ last.why = "MissingDependency"
    /\ last.id \in LoadedSet
    /\ "dependencies" \notin DOMAIN loaded_addons[last.id].attrs
    /\ addon_metadata[last.id].version = "2.0"

\* C29: when the external metadata record exists but cannot be parsed,
\* load(id) succeeds and the resolved metadata is the unit-declared one.
C29_UnparsableMetadataIgnored ==
    [][\A id \in Addons :
         (Called("load", id) /\ last'.ext.kind \in {"invalid", "raises"})
         => /\ last'.ret
            /\ id \in DOMAIN loaded_addons'
            /\ id \in DOMAIN addon_metadata'
            /\ addon_metadata'[id] = UnitDeclared(id, sys_modules'[id])
      ]_vars

\* C30: every addon in the active set is in the loaded set, with the same
\* unit instance.
C30_ActiveIsLoaded ==
    \A id \in ActiveSet :
      /\ id \in LoadedSet
      /\ loaded_addons[id] = active_addons[id]

----------------------------------------------------------------------------
(* Queries: properties of SpecQueries *)

\* the elements of a list
Range(seq) == {seq[i] : i \in 1..Len(seq)}

\* the list without id
Without(seq, id) ==
    LET Other(k) == k # id
    IN SelectSeq(seq, Other)

\* the last two calls were a successful deactivate(id) and then a
\* successful activate(id)
RoundTrip(id) ==
    /\ hist.earlier.op = "deactivate" /\ hist.earlier.id = id
    /\ hist.earlier.ret
    /\ last.op = "activate" /\ last.id = id /\ last.ret

\* C22: after a successful deactivate(id) immediately followed by a
\* successful activate(id) the addon is Active and info(id), listLoaded()
\* and listActive() answer what they answered before the deactivate.
C22_RoundTripIndistinguishable ==
    \A id \in Addons :
      RoundTrip(id)
      => /\ id \in ActiveSet
         /\ Observe(Cur, keys, id) = hist.earlier.before

\* C22 as the code has it: after the round trip the addon is Active with
\* the unit it had, info(id) and listLoaded() answer what they answered
\* before the deactivate, and listActive() answers the same identifiers
\* with id moved to the end of the list.
C22_RoundTripUpToOrder ==
    \A id \in Addons :
      RoundTrip(id)
      => LET now == Observe(Cur, keys, id)
             then == hist.earlier.before
         IN /\ id \in ActiveSet
            /\ id \in LoadedSet
            /\ active_addons[id] = loaded_addons[id]
            /\ now.info = then.info
            /\ now.loaded = then.loaded
            /\ Range(now.active) = Range(then.active)
            /\ now.active = Append(Without(then.active, id), id)

\* a round trip of an addon on which an active addon depends, which
\* changed the answer of listActive()
C22_Witness ==
    \E id \in Addons :
      /\ RoundTrip(id)
      /\ \E b \in ActiveSet \ {id} : DependsOn(b, id)
      /\ get_active_addons(keys) # hist.earlier.before.active

\* C24: for an identifier that was never loaded, info(id) fails with
\* NotLoaded (ValueError) and neither listLoaded() nor listActive() holds
\* it, whatever was done with the other identifiers.
C24_NeverLoadedIsUnknown ==
    \A id \in Addons \ hist.ever_loaded :
      /\ (last.op = "info" /\ last.id = id)
         => /\ ~last.ret
            /\ last.raised = "ValueError"
            /\ last.value = "NotLoaded"
      /\ last.op \in {"listLoaded", "listActive"}
         => id \notin Range(last.list)
      /\ id \notin Range(get_loaded_addons(keys))
      /\ id \notin Range(get_active_addons(keys))

\* info was asked about an addon whose loads all failed, while another
\* addon is active
C24_Witness ==
    /\ last.op = "info"
    /\ last.id \notin hist.ever_loaded
    /\ last.id \in DOMAIN sys_modules
    /\ last.raised = "ValueError"
    /\ ActiveSet # {}

\* C25: info(id) on a registered addon returns a snapshot whose status is
\* "Active" exactly when the addon is Active and "Inactive" when it is
\* only Loaded; the call changes nothing and runs no code of the unit.
C25_InfoIsReadOnlySnapshot ==
    [][\A id \in Addons :
         (Called("info", id) /\ id \in LoadedSet)
         => /\ last'.ret
            /\ last'.info.status = IF id \in ActiveSet THEN "Active"
                                   ELSE "Inactive"
            /\ RegistryUnchanged
            /\ UNCHANGED <<sys_modules, sys_path, nextUid>>
            /\ last'.events = << >>
      ]_vars

----------------------------------------------------------------------------
(* Two callers: properties of SpecConcurrent *)

\* what the call op(id), made alone from state st, returns and leaves
Alone(st, op, id) ==
    CASE op = "activate" ->
           LET r == activate_addon(st, id, TRUE)
           IN [ret |-> r.ret, raised |-> "", st |-> r.st]
      [] op = "reload" ->
           LET r == reload_addon(st, id, TRUE, PlainUnit,
                                 [kind |-> "absent"], TRUE)
           IN [ret |-> r.ret,
               raised |-> IF r.raised THEN "KeyError" ELSE "", st |-> r.st]
      [] op = "info" ->
           LET r == get_addon_info(st, id)
           IN [ret |-> r.ret, raised |-> r.raised, st |-> r.st]

BothDone == \A t \in Threads : threads[t].pc = "done"

\* the two calls ended as they would have, had `first` made its whole call
\* before `second` began
AsIfInOrder(first, second) ==
    LET a == Alone(forked.st, threads[first].op, threads[first].id)
        b == Alone(a.st, threads[second].op, threads[second].id)
    IN /\ threads[first].ret = a.ret
       /\ threads[first].raised = a.raised
       /\ threads[second].ret = b.ret
       /\ threads[second].raised = b.raised
       /\ Registry(Cur) = Registry(b.st)

Serializable == AsIfInOrder(1, 2) \/ AsIfInOrder(2, 1)

\* C26: two lifecycle calls (activate, reload) on the same addon that run
\* at the same time end as some sequential order of the two would; of two
\* activate calls at most one returns success and initialize is called at
\* most once.
C26_LifecycleCallsSerialized ==
    (BothDone /\ \A t \in Threads : threads[t].op \in {"activate", "reload"})
    => /\ Serializable
       /\ (\A t \in Threads : threads[t].op = "activate")
          => /\ ~(threads[1].ret /\ threads[2].ret)
             /\ threads[1].inits + threads[2].inits <= 1

\* the info dictionary get_addon_info returns when it is called alone in
\* state st
InfoAlone(st, id) == get_addon_info(st, id).info

\* C27: info(id) that runs at the same time as reload(id) either returns
\* the complete result of the state before or of the state after the
\* reload, or fails with NotLoaded (ValueError); it does not fail with a
\* lookup error.
C27_InfoDuringReloadConsistent ==
    \A t \in Threads : \A u \in Threads \ {t} :
      (BothDone /\ threads[t].op = "info" /\ threads[u].op = "reload")
      => \/ /\ threads[t].ret
            /\ threads[t].info # NoInfo
            /\ threads[t].info \in {InfoAlone(forked.st, threads[t].id),
                                     InfoAlone(Cur, threads[t].id)}
         \/ threads[t].raised = "ValueError"

\* C31: after any sequence of operations the identifiers that have a
\* metadata record are exactly the identifiers of the loaded set, and no
\* reload_addon finds one of the two entries it deletes missing.
C31_MetadataMatchesLoaded ==
    /\ DOMAIN addon_metadata = DOMAIN loaded_addons
    /\ last.op = "reload" => last.raised = ""

\* a reload that deleted both entries and stored them again
C31_Witness ==
    /\ last.op = "reload"
    /\ last.steps.unloadRan
    /\ last.steps.loadRan
    /\ last.ret
    /\ last.id \in DOMAIN addon_metadata

\* the entry of y in dictionary d before the step is its entry in e after
SameEntry(d, e, y) ==
    /\ (y \in DOMAIN d) = (y \in DOMAIN e)
    /\ (y \in DOMAIN d /\ y \in DOMAIN e) => d[y] = e[y]

\* state, unit and metadata of y are not changed by the step
Untouched(y) ==
    /\ SameEntry(loaded_addons, loaded_addons', y)
    /\ SameEntry(active_addons, active_addons', y)
    /\ SameEntry(addon_metadata, addon_metadata', y)
    /\ SameEntry(sys_modules, sys_modules', y)

LifecycleOps == {"load", "activate", "deactivate", "reload", "invoke"}

\* C33: a lifecycle call with identifier x (load, activate, deactivate,
\* reload, invoke) leaves the state, the unit and the metadata of every other
\* identifier y as they were, dependents and dependencies of x included:
\* nothing is activated or deactivated on the side.
C33_OtherAddonsUntouched ==
    [][\A x \in Addons : \A op \in LifecycleOps :
         Called(op, x) => \A y \in Addons \ {x} : Untouched(y)]_vars

\* an addon was deactivated while an active addon depends on it
C33_Witness ==
    /\ last.op = "deactivate"
    /\ last.ret
    /\ last.id \notin ActiveSet
    /\ \E y \in ActiveSet \cap DOMAIN addon_metadata : DependsOn(y, last.id)

\* C35: invoke(id, name) on an Active addon whose unit has no callable
\* called name, a member of that name that is not callable included, fails
\* with the capability-not-found error and calls nothing.
C35_InvokeNonCallableIsNotFound ==
    [][\A id \in Addons :
         (Called("invoke", id) /\ id \in ActiveSet
          /\ ~IsCallable(active_addons[id].members, last'.fn))
         => /\ ~last'.ret
            /\ last'.raised = "AttributeError"
            /\ last'.value = "CapabilityNotFound"
            /\ last'.events = << >>
      ]_vars

\* the unit sets none of __version__, __author__, __dependencies__ and has
\* no docstring
DeclaresNothing(u) ==
    /\ DOMAIN u.attrs \subseteq {"doc"}
    /\ GetOr(u.attrs, "doc", "None") = "None"

\* C37: for a unit that declares none of the metadata fields and has no
\* metadata file, the metadata resolved at registration has version
\* "Unknown", author "Unknown", description "No description provided." and
\* an empty dependency list.
C37_DefaultsForUndeclaredFields ==
    [][\A id \in Addons :
         (/\ Registered(id)
          /\ id \in DOMAIN loaded_addons'
          /\ last'.ext.kind = "absent"
          /\ DeclaresNothing(loaded_addons'[id]))
         => /\ id \in DOMAIN addon_metadata'
            /\ addon_metadata'[id].version = "Unknown"
            /\ addon_metadata'[id].author = "Unknown"
            /\ addon_metadata'[id].description = "No description provided."
            /\ addon_metadata'[id].dependencies = << >>
      ]_vars

\* C38: reload(id) on an identifier that is neither Loaded nor Active
\* returns failure and changes nothing: no unload and no load step is run, no
\* code of a unit is run, and the registry, the import cache and the module
\* search path are as before.
C38_ReloadUnknownIsNoOp ==
    [][\A id \in Addons :
         (Called("reload", id) /\ id \notin LoadedSet \cup ActiveSet)
         => /\ ~last'.ret
            /\ last'.raised = ""
            /\ last'.steps = NoSteps
            /\ last'.events = << >>
            /\ last'.ext = NoExt
            /\ RegistryUnchanged
            /\ UNCHANGED <<sys_modules, sys_path, nextUid>>
      ]_vars

\* reload has just been refused for an addon that is not registered, though
\* its file was imported before
C38_Witness ==
    /\ last.op = "reload"
    /\ ~last.ret
    /\ last.steps = NoSteps
    /\ last.id \notin LoadedSet \cup ActiveSet
    /\ last.id \in DOMAIN sys_modules

\* C39: load(id) leaves the module search path as it found it, whatever the
\* outcome: the entry it puts in front is taken out again, so failing loads
\* do not pile entries up.
C39_LoadRestoresSearchPath ==
    [][\A id \in Addons : Called("load", id) => sys_path' = sys_path]_vars

\* the call ran the unit's function `hook`, as a step of the lifecycle or
\* through execute_addon_function
RanHook(ev, hook) ==
    \E i \in 1..Len(ev) :
      \/ ev[i][1] = hook
      \/ ev[i][1] = "call" /\ ev[i][4] = hook

\* C32: over any sequence of load, activate, deactivate, reload and invoke
\* calls, the manager runs a unit's initialize only while the addon is
\* Loaded and not Active and its shutdown only while it is Active (inside
\* reload: shutdown on the addon found Active, initialize after the
\* deactivation and the load succeeded), so that initialize and shutdown
\* alternate.
C32_HooksFollowState ==
    [][\A id \in Addons :
         /\ \A op \in {"load", "activate", "deactivate", "invoke"} :
              Called(op, id) =>
                /\ RanHook(last'.events, "initialize")
                     => id \in LoadedSet \ ActiveSet
                /\ RanHook(last'.events, "shutdown") => id \in ActiveSet
         /\ Called("reload", id) =>
                /\ RanHook(last'.events, "shutdown") => id \in ActiveSet
                /\ RanHook(last'.events, "initialize")
                     => last'.steps.deactRet /\ last'.steps.loadRet
      ]_vars

\* the list names each identifier of the set, once
ListsExactly(list, ids) ==
    /\ Range(list) = ids
    /\ Len(list) = Cardinality(ids)

RECURSIVE DependsOnVia(_, _, _)
DependsOnVia(a, b, n) ==
    \/ DependsOn(a, b)
    \/ /\ n > 1
       /\ \E c \in Addons : DependsOn(a, c) /\ DependsOnVia(c, b, n - 1)

\* id lies on a dependency cycle (a dependency on itself is one)
OnCycle(id) == DependsOnVia(id, id, Cardinality(Addons))

\* the addons on the cycles through id
CycleMembers(id) ==
    {id} \cup {c \in Addons : /\ DependsOnVia(id, c, Cardinality(Addons))
                              /\ DependsOnVia(c, id, Cardinality(Addons))}

\* C34 as stated: for an addon that depends on itself or lies on a
\* dependency cycle, activate(id) returns failure, and as long as the
\* metadata stays the same no addon of the cycle becomes Active.
C34_CycleNeverActivates ==
    [][\A id \in Addons :
         OnCycle(id) =>
           /\ Called("activate", id) => ~last'.ret
           /\ addon_metadata' = addon_metadata =>
                \A c \in CycleMembers(id) :
                  c \in ActiveSet' => c \in ActiveSet
      ]_vars

\* C34, amended: activate(id) returns failure for an addon that depends on
\* itself, and for an addon on a dependency cycle none of whose members is
\* Active; as long as the metadata stays the same, no addon of such a cycle
\* becomes Active.
C34_IdleCycleNeverActivates ==
    [][\A id \in Addons :
         /\ (DependsOn(id, id) /\ Called("activate", id)) => ~last'.ret
         /\ (OnCycle(id) /\ CycleMembers(id) \cap ActiveSet = {}) =>
              /\ Called("activate", id) =>
                   ~last'.ret /\ last'.events = << >>
              /\ addon_metadata' = addon_metadata =>
                   CycleMembers(id) \cap ActiveSet' = {}
      ]_vars

\* activate has just failed for an addon on a cycle of two addons, both
\* loaded and neither Active
C34_Witness ==
    \E id \in Addons :
      /\ last.op = "activate" /\ last.id = id /\ ~last.ret
      /\ OnCycle(id)
      /\ ~DependsOn(id, id)
      /\ CycleMembers(id) = Addons
      /\ Addons \subseteq LoadedSet
      /\ ActiveSet = {}

====
